---- MODULE Spec2Model ----
(***************************************************************************)
(* Model of the paginated fetch-with-retry engine of card_query.py:        *)
(*   get_card_transactions  (PageFetcher)      src/card_query.py:8-100     *)
(*   get_all_transactions   (PaginationDriver) src/card_query.py:102-139   *)
(*                                                                         *)
(* Spec      : one run of get_all_transactions, the remote service         *)
(*             answering every request nondeterministically.               *)
(* SpecFetch : one direct call of get_card_transactions with arbitrary     *)
(*             page, delay and max_retries.                                *)
(***************************************************************************)
EXTENDS Integers, Sequences, FiniteSets, TLC

VARIABLES
    srvTotal,           \* the record count the service reports in `total` during this run
    delay,              \* get_all_transactions' delay argument (operator supplied)
    pc,                 \* position of get_all_transactions: start, first, loop, wait, done, direct
    page,               \* the loop variable `page` of get_all_transactions
    total_pages,        \* local total_pages
    all_transactions,   \* local all_transactions (the accumulator)
    result,             \* the list get_all_transactions returned
    signal,             \* which message get_all_transactions printed when it ended
    calls,              \* history: page numbers get_card_transactions was called with
    got,                \* history: the value each of those calls returned
    fpage,              \* get_card_transactions: argument page
    fdelay,             \* get_card_transactions: argument delay
    fmax,               \* get_card_transactions: argument max_retries
    attempt,            \* get_card_transactions: loop variable attempt
    fstate,             \* get_card_transactions: idle, entry, loop, returned
    fresult,            \* get_card_transactions: the value returned
    ftrace,             \* history: events of the current get_card_transactions call
    nreq,               \* history: requests.post calls of the run (counted under SpecMain)
    session_id,         \* main: the ASP.NETSessionId entered, stripped
    hall_ticket,        \* main: the hallticket entered, stripped
    mainMsg,            \* main: the message main ended with
    files,              \* main: names of the files main wrote
    listing,            \* find_latest_transaction_file: os.listdir()
    latest              \* find_latest_transaction_file: the value returned

vars == <<srvTotal, delay, pc, page, total_pages, all_transactions, result, signal,
          calls, got, fpage, fdelay, fmax, attempt, fstate, fresult, ftrace,
          nreq, session_id, hall_ticket, mainMsg, files, listing, latest>>

drivervars == <<delay, pc, page, total_pages, all_transactions, result, signal, calls, got>>
fetchvars == <<fpage, fdelay, fmax, attempt, fstate, fresult, ftrace>>
mainvars == <<session_id, hall_ticket, mainMsg, files>>
latestvars == <<listing, latest>>

----------------------------------------------------------------------------
(* Bounds of the model *)

MaxTotal == 101         \* largest record count the service reports
MaxRowsLen == 1         \* largest number of records in one page's `rows`
MaxDelay == 1           \* largest delay argument, in seconds
MaxAttempts == 3        \* largest max_retries of a direct call (SpecFetch)
MaxPageArg == 2         \* largest page argument of a direct call (SpecFetch)
MaxFiles == 3           \* largest number of names in the directory (SpecLatest)

(* Program constants *)

PageSize == 50          \* rows_per_page
DefaultDelay == 1       \* default of get_card_transactions' delay parameter
DefaultRetries == 3     \* default of get_card_transactions' max_retries parameter

----------------------------------------------------------------------------
(* Values returned by response.json() and by get_card_transactions *)

None == [kind |-> "none", keys |-> {}, total |-> 0, rows |-> <<>>]

PageObj(keys, total, rows) ==
    [kind |-> "obj", keys |-> keys,
     total |-> IF "total" \in keys THEN total ELSE 0,
     rows  |-> IF "rows" \in keys THEN rows ELSE <<>>]

\* the key sets of the JSON objects the service may answer with; {} is the empty object
KeySets == {{"total", "rows"}, {"total"}, {"rows"}, {}}

\* the records of page p: n distinct records, identified by page and position
RowsOf(p, n) == [i \in 1..n |-> <<p, i>>]

Bodies(p) == {PageObj(k, srvTotal, RowsOf(p, n)) : k \in KeySets, n \in 0..MaxRowsLen}

\* HTTP status codes: 200, another 2xx, a 3xx, a 4xx, a 5xx
Statuses == {200, 204, 304, 404, 500}

\* what requests.post() does: raises a RequestException (no response), or returns
\* a response with a status and a body that parses as JSON (json) or does not
ExcResponse == [kind |-> "exc", status |-> 0, json |-> FALSE, body |-> None]

Responses(p) ==
    {ExcResponse}
    \cup {[kind |-> "resp", status |-> s, json |-> FALSE, body |-> None] : s \in Statuses}
    \cup {[kind |-> "resp", status |-> s, json |-> TRUE, body |-> b] :
             s \in Statuses, b \in Bodies(p)}

\* Python truthiness of a value returned by get_card_transactions: None and {} are falsy
Truthy(v) == v.kind = "obj" /\ v.keys # {}

HasKey(v, k) == v.kind = "obj" /\ k \in v.keys

\* dict.get('rows', [])
GetRows(v) == IF HasKey(v, "rows") THEN v.rows ELSE <<>>

----------------------------------------------------------------------------
(* Events of a get_card_transactions call *)

Req(a)      == [ev |-> "req",   n |-> a, kind |-> ""]    \* requests.post of attempt a
Resp(r)     == [ev |-> "resp",  n |-> r.status,              \* response received:
                kind |-> IF r.kind = "exc" THEN "exc"    \* status (0: exception) and
                         ELSE IF r.json THEN "json"      \* whether its body parses
                         ELSE "text"]
Log(a, k)   == [ev |-> "log",   n |-> a, kind |-> k]     \* diagnostics printed
Pause(d)    == [ev |-> "pause", n |-> d, kind |-> ""]    \* time.sleep(d)
Ret(a, k)   == [ev |-> "ret",   n |-> a, kind |-> k]     \* return (page / none)

----------------------------------------------------------------------------
(* get_card_transactions *)

\* response.raise_for_status(): HTTPError for 4xx and 5xx only
RaisesForStatus(s) == s >= 400 /\ s < 600

\* `attempt < max_retries - 1`
NotLast(a, max) == a < max - 1

\* `delay * (attempt + 2)`
RetryDelayMut(d, a) == d * (a + 1)
RetryDelay(d, a) == d * (a + 2)

\* how one iteration of the for loop ends: "retry" (sleep, continue),
\* "fail" (return None) or "page" (return response.json())
OutcomeInverted(resp, a, max) ==
    IF resp.kind = "exc" THEN (IF NotLast(a, max) THEN "retry" ELSE "fail")
    ELSE IF resp.status = 200 /\ NotLast(a, max) THEN "retry"
    ELSE IF RaisesForStatus(resp.status) THEN (IF NotLast(a, max) THEN "retry" ELSE "fail")
    ELSE IF ~resp.json THEN (IF NotLast(a, max) THEN "retry" ELSE "fail")
    ELSE "page"
Outcome(resp, a, max) ==
    IF resp.kind = "exc" THEN (IF NotLast(a, max) THEN "retry" ELSE "fail")
    ELSE IF resp.status # 200 /\ NotLast(a, max) THEN "retry"
    ELSE IF RaisesForStatus(resp.status) THEN (IF NotLast(a, max) THEN "retry" ELSE "fail")
    ELSE IF ~resp.json THEN (IF NotLast(a, max) THEN "retry" ELSE "fail")
    ELSE "page"

\* the sleep that ends a failed iteration that is not the last
Backoff(d, a, max) == IF NotLast(a, max) THEN <<Pause(RetryDelay(d, a))>> ELSE <<>>

\* what one iteration prints and sleeps, in order, after the request
AfterRequestResend(resp, a, max, d) ==
    IF resp.kind = "exc" THEN <<Log(a, "exc_noresp")>> \o Backoff(d, a, max)
    ELSE IF resp.status # 200 /\ NotLast(a, max)
         THEN <<Log(a, "status"), Pause(RetryDelay(d, a)), Req(a), Resp(resp)>>
    ELSE (IF resp.status # 200 THEN <<Log(a, "status")>> ELSE <<>>)
         \o (IF RaisesForStatus(resp.status)
             THEN <<Log(a, "exc_resp")>> \o Backoff(d, a, max)
             ELSE IF ~resp.json
             THEN <<Log(a, "json")>> \o Backoff(d, a, max)
             ELSE <<>>)
AfterRequest(resp, a, max, d) ==
    IF resp.kind = "exc" THEN <<Log(a, "exc_noresp")>> \o Backoff(d, a, max)
    ELSE IF resp.status # 200 /\ NotLast(a, max)
         THEN <<Log(a, "status"), Pause(RetryDelay(d, a))>>
    ELSE (IF resp.status # 200 THEN <<Log(a, "status")>> ELSE <<>>)
         \o (IF RaisesForStatus(resp.status)
             THEN <<Log(a, "exc_resp")>> \o Backoff(d, a, max)
             ELSE IF ~resp.json
             THEN <<Log(a, "json")>> \o Backoff(d, a, max)
             ELSE <<>>)

\* lines 14-16: the pacing sleep before the loop
FetchEnter ==
    /\ fstate = "entry"
    /\ ftrace' = IF fpage > 1 THEN Append(ftrace, Pause(fdelay)) ELSE ftrace
    /\ attempt' = 0
    /\ fstate' = "loop"
    /\ UNCHANGED <<srvTotal, nreq, mainvars, latestvars, drivervars, fpage, fdelay, fmax, fresult>>

\* lines 36-100: one iteration of `for attempt in range(max_retries)`
FetchAttemptCore ==
    /\ fstate = "loop"
    /\ attempt < fmax
    /\ \E resp \in Responses(fpage) :
         LET o  == Outcome(resp, attempt, fmax)
             ev == <<Req(attempt), Resp(resp)>>
                   \o AfterRequest(resp, attempt, fmax, fdelay)
         IN  IF o = "page"
             THEN /\ fresult' = resp.body
                  /\ fstate' = "returned"
                  /\ attempt' = attempt
                  /\ ftrace' = ftrace \o ev \o <<Ret(attempt, "page")>>
             ELSE IF o = "fail" \/ attempt + 1 >= fmax
             THEN /\ fresult' = None
                  /\ fstate' = "returned"
                  /\ attempt' = attempt
                  /\ ftrace' = ftrace \o ev \o <<Ret(attempt, "none")>>
             ELSE /\ fresult' = fresult
                  /\ fstate' = "loop"
                  /\ attempt' = attempt + 1
                  /\ ftrace' = ftrace \o ev
    /\ UNCHANGED <<srvTotal, mainvars, latestvars, drivervars, fpage, fdelay, fmax>>

FetchAttempt == FetchAttemptCore /\ UNCHANGED nreq

\* the same iteration, its request counted in nreq
FetchAttemptCounted == FetchAttemptCore /\ nreq' = nreq + 1

----------------------------------------------------------------------------
(* get_all_transactions *)

\* the callee has returned: its locals are gone
FrameDropped ==
    /\ fpage' = 0
    /\ fdelay' = 0
    /\ fmax' = 0
    /\ attempt' = 0
    /\ fstate' = "idle"
    /\ fresult' = None
    /\ ftrace' = <<>>

InvokeOneMore(p, d) ==
    /\ fpage' = p
    /\ fdelay' = d
    /\ fmax' = DefaultRetries + 1
    /\ attempt' = 0
    /\ fstate' = "entry"
    /\ fresult' = None
    /\ ftrace' = <<>>
    /\ calls' = Append(calls, p)
\* a call get_card_transactions(..., page = p, delay = d) with the default max_retries
Invoke(p, d) ==
    /\ fpage' = p
    /\ fdelay' = d
    /\ fmax' = DefaultRetries
    /\ attempt' = 0
    /\ fstate' = "entry"
    /\ fresult' = None
    /\ ftrace' = <<>>
    /\ calls' = Append(calls, p)

\* `(total_records + rows_per_page - 1) // rows_per_page`
TotalPagesFloor(total) == total \div PageSize
TotalPages(total) == (total + PageSize - 1) \div PageSize

\* list.extend
ExtendPrepend(acc, rows) == rows \o acc
Extend(acc, rows) == acc \o rows

\* line 105: the first page is requested with the default delay
CallFirstPage ==
    /\ pc = "start"
    /\ Invoke(1, DefaultDelay)
    /\ pc' = "first"
    /\ page' = 1
    /\ UNCHANGED <<srvTotal, nreq, mainvars, latestvars, delay, total_pages, all_transactions, result, signal, got>>

\* lines 107-125
HandleFirstPageContinue ==
    /\ pc = "first"
    /\ fstate = "returned"
    /\ got' = Append(got, fresult)
    /\ FrameDropped
    /\ IF ~Truthy(fresult)
       THEN /\ total_pages' = 2
            /\ all_transactions' = <<>>
            /\ page' = 2
            /\ pc' = "loop"
            /\ UNCHANGED <<result, signal>>
       ELSE IF ~HasKey(fresult, "total")
       THEN /\ result' = <<>>
            /\ signal' = "unexpected_format"
            /\ pc' = "done"
            /\ UNCHANGED <<total_pages, all_transactions, page>>
       ELSE /\ total_pages' = TotalPages(fresult.total)
            /\ all_transactions' = GetRows(fresult)
            /\ page' = 2
            /\ pc' = "loop"
            /\ UNCHANGED <<result, signal>>
    /\ UNCHANGED <<srvTotal, nreq, mainvars, latestvars, delay, calls>>
HandleFirstPageKeepRows ==
    /\ pc = "first"
    /\ fstate = "returned"
    /\ got' = Append(got, fresult)
    /\ FrameDropped
    /\ IF ~Truthy(fresult)
       THEN /\ result' = <<>>
            /\ signal' = "initial_failed"
            /\ pc' = "done"
            /\ UNCHANGED <<total_pages, all_transactions, page>>
       ELSE IF ~HasKey(fresult, "total")
       THEN /\ result' = GetRows(fresult)
            /\ signal' = "unexpected_format"
            /\ pc' = "done"
            /\ UNCHANGED <<total_pages, all_transactions, page>>
       ELSE /\ total_pages' = TotalPages(fresult.total)
            /\ all_transactions' = GetRows(fresult)
            /\ page' = 2
            /\ pc' = "loop"
            /\ UNCHANGED <<result, signal>>
    /\ UNCHANGED <<srvTotal, nreq, mainvars, latestvars, delay, calls>>
HandleFirstPage ==
    /\ pc = "first"
    /\ fstate = "returned"
    /\ got' = Append(got, fresult)
    /\ FrameDropped
    /\ IF ~Truthy(fresult)
       THEN /\ result' = <<>>
            /\ signal' = "initial_failed"
            /\ pc' = "done"
            /\ UNCHANGED <<total_pages, all_transactions, page>>
       ELSE IF ~HasKey(fresult, "total")
       THEN /\ result' = <<>>
            /\ signal' = "unexpected_format"
            /\ pc' = "done"
            /\ UNCHANGED <<total_pages, all_transactions, page>>
       ELSE /\ total_pages' = TotalPages(fresult.total)
            /\ all_transactions' = GetRows(fresult)
            /\ page' = 2
            /\ pc' = "loop"
            /\ UNCHANGED <<result, signal>>
    /\ UNCHANGED <<srvTotal, nreq, mainvars, latestvars, delay, calls>>

\* lines 128-130 and 139: the head of `for page in range(2, total_pages + 1)`
LoopStep ==
    /\ pc = "loop"
    /\ IF page <= total_pages
       THEN /\ Invoke(page, delay)
            /\ pc' = "wait"
            /\ UNCHANGED <<result, signal>>
       ELSE /\ result' = all_transactions
            /\ signal' = "complete"
            /\ pc' = "done"
            /\ UNCHANGED <<calls, fetchvars>>
    /\ UNCHANGED <<srvTotal, nreq, mainvars, latestvars, delay, page, total_pages, all_transactions, got>>

\* lines 132-137 and 139
HandlePageNoBreak ==
    /\ pc = "wait"
    /\ fstate = "returned"
    /\ got' = Append(got, fresult)
    /\ FrameDropped
    /\ IF Truthy(fresult) /\ HasKey(fresult, "rows")
       THEN all_transactions' = Extend(all_transactions, fresult.rows)
       ELSE all_transactions' = all_transactions
    /\ page' = page + 1
    /\ pc' = "loop"
    /\ UNCHANGED <<result, signal>>
    /\ UNCHANGED <<srvTotal, nreq, mainvars, latestvars, delay, total_pages, calls>>
HandlePageTwice ==
    /\ pc = "wait"
    /\ fstate = "returned"
    /\ got' = Append(got, fresult)
    /\ FrameDropped
    /\ IF Truthy(fresult) /\ HasKey(fresult, "rows")
       THEN /\ all_transactions' =
                   Extend(Extend(all_transactions, fresult.rows), fresult.rows)
            /\ page' = page + 1
            /\ pc' = "loop"
            /\ UNCHANGED <<result, signal>>
       ELSE /\ result' = all_transactions
            /\ signal' = "page_failed"
            /\ pc' = "done"
            /\ UNCHANGED <<all_transactions, page>>
    /\ UNCHANGED <<srvTotal, nreq, mainvars, latestvars, delay, total_pages, calls>>
HandlePageRetry ==
    /\ pc = "wait"
    /\ fstate = "returned"
    /\ got' = Append(got, fresult)
    /\ FrameDropped
    /\ IF Truthy(fresult) /\ HasKey(fresult, "rows")
       THEN /\ all_transactions' = Extend(all_transactions, fresult.rows)
            /\ page' = page + 1
       ELSE /\ all_transactions' = all_transactions
            /\ page' = page
    /\ pc' = "loop"
    /\ UNCHANGED <<result, signal>>
    /\ UNCHANGED <<srvTotal, nreq, mainvars, latestvars, delay, total_pages, calls>>
HandlePage ==
    /\ pc = "wait"
    /\ fstate = "returned"
    /\ got' = Append(got, fresult)
    /\ FrameDropped
    /\ IF Truthy(fresult) /\ HasKey(fresult, "rows")
       THEN /\ all_transactions' = Extend(all_transactions, fresult.rows)
            /\ page' = page + 1
            /\ pc' = "loop"
            /\ UNCHANGED <<result, signal>>
       ELSE /\ result' = all_transactions
            /\ signal' = "page_failed"
            /\ pc' = "done"
            /\ UNCHANGED <<all_transactions, page>>
    /\ UNCHANGED <<srvTotal, nreq, mainvars, latestvars, delay, total_pages, calls>>

\* the response diagnostics a printed record carries, by the place that prints it:
\* lines 43-48 (status), 61-67 (json), 77-91 (exception with / without a response)
LogFields(k) ==
    CASE k = "status"     -> {"status", "headers", "body"}
      [] k = "json"       -> {"headers", "body"}
      [] k = "exc_resp"   -> {"status", "headers", "body"}
      [] k = "exc_noresp" -> {}

\* the same for the messages of get_all_transactions: lines 108-109, 113-114, 135-136
DriverLogFields(sig) ==
    CASE sig = "initial_failed"    -> {}
      [] sig = "unexpected_format" -> {"body"}
      [] sig = "page_failed"       -> {}
      [] OTHER                     -> {}

----------------------------------------------------------------------------
(* main *)

\* strings are sequences of character codes
IsSpace(c) == c \in {9, 10, 13, 32}

RECURSIVE LStrip(_)
LStrip(s) == IF s # <<>> /\ IsSpace(Head(s)) THEN LStrip(Tail(s)) ELSE s

RECURSIVE RStrip(_)
RStrip(s) == IF s # <<>> /\ IsSpace(s[Len(s)]) THEN RStrip(SubSeq(s, 1, Len(s) - 1)) ELSE s

\* str.strip()
Strip(s) == RStrip(LStrip(s))

\* what the operator may type at a prompt: nothing, blanks, a value, a value in blanks
RawInputs == {<<>>, <<32>>, <<32, 9>>, <<97>>, <<32, 97, 32>>}

\* the decimal digits of n, zero padded to width w (strftime's %Y %m %d %H %M %S)
Pad(n, w) == [i \in 1..w |-> 48 + ((n \div (10 ^ (w - i))) % 10)]

\* strftime('%Y%m%d_%H%M%S')
Stamp(t) == Pad(t.y, 4) \o Pad(t.mo, 2) \o Pad(t.d, 2) \o <<95>>
            \o Pad(t.h, 2) \o Pad(t.mi, 2) \o Pad(t.s, 2)

\* "card_transactions_" and ".json"
NamePrefix == <<99, 97, 114, 100, 95, 116, 114, 97, 110, 115, 97, 99, 116, 105, 111, 110, 115, 95>>
NameSuffix == <<46, 106, 115, 111, 110>>

\* f"card_transactions_{datetime.now().strftime('%Y%m%d_%H%M%S')}.json"
FileName(t) == NamePrefix \o Stamp(t) \o NameSuffix

\* the values datetime.now() takes in the model
Timestamps == [y : {2023, 2024}, mo : {9, 10}, d : {1}, h : {0}, mi : {0}, s : {9, 10}]

\* lines 159-173: the prompts, the credential check, the call of get_all_transactions
MainStart ==
    /\ pc = "main"
    /\ \E raw1, raw2 \in RawInputs :
          /\ session_id' = Strip(raw1)
          /\ hall_ticket' = Strip(raw2)
    /\ IF session_id' = <<>> \/ hall_ticket' = <<>>
       THEN /\ mainMsg' = "credentials_required"
            /\ pc' = "exit"
       ELSE /\ mainMsg' = mainMsg
            /\ pc' = "start"
    /\ UNCHANGED <<srvTotal, nreq, files, latestvars, delay, page, total_pages,
                   all_transactions, result, signal, calls, got, fetchvars>>

\* lines 175-183: the result is saved when it is not empty
MainFinishAlways ==
    /\ pc = "done"
    /\ \E t \in Timestamps : files' = files \cup {FileName(t)}
    /\ mainMsg' = "saved"
    /\ pc' = "exit"
    /\ UNCHANGED <<srvTotal, nreq, session_id, hall_ticket, latestvars, delay, page,
                   total_pages, all_transactions, result, signal, calls, got, fetchvars>>
MainFinish ==
    /\ pc = "done"
    /\ IF result # <<>>
       THEN /\ \E t \in Timestamps : files' = files \cup {FileName(t)}
            /\ mainMsg' = "saved"
       ELSE /\ files' = files
            /\ mainMsg' = "none_retrieved"
    /\ pc' = "exit"
    /\ UNCHANGED <<srvTotal, nreq, session_id, hall_ticket, latestvars, delay, page,
                   total_pages, all_transactions, result, signal, calls, got, fetchvars>>

----------------------------------------------------------------------------
(* find_latest_transaction_file (analyze_transactions.py) *)

\* Python None as the value returned: no file name is empty
NoFile == <<>>

\* str.startswith, str.endswith
StartsWith(s, pre) == Len(s) >= Len(pre) /\ SubSeq(s, 1, Len(pre)) = pre
EndsWith(s, suf) == Len(s) >= Len(suf) /\ SubSeq(s, Len(s) - Len(suf) + 1, Len(s)) = suf

\* the list comprehension of line 44
JsonFiles(names) == {f \in names : StartsWith(f, NamePrefix) /\ EndsWith(f, NameSuffix)}

RECURSIVE StrGreater(_, _)
\* a > b on Python strings: decided by the first character that differs,
\* a proper prefix being the smaller
StrGreater(a, b) ==
    IF a = <<>> THEN FALSE
    ELSE IF b = <<>> THEN TRUE
    ELSE IF Head(a) # Head(b) THEN Head(a) > Head(b)
    ELSE StrGreater(Tail(a), Tail(b))

RECURSIVE MaxFrom(_, _)
\* max(): the items are taken one by one, a greater one replacing the best so far
MaxFrom(best, rest) ==
    IF rest = {} THEN best
    ELSE LET f == CHOOSE x \in rest : TRUE
         IN  MaxFrom(IF StrGreater(f, best) THEN f ELSE best, rest \ {f})

MinOfFiles(files0) ==
    LET f == CHOOSE x \in files0 : \A y \in files0 : ~StrGreater(x, y)
    IN  f
MaxOfFiles(files0) ==
    LET f == CHOOSE x \in files0 : TRUE
    IN  MaxFrom(f, files0 \ {f})

\* names a directory may hold: stamped result files, result-like names without a
\* stamp ("card_transactions_.json", "card_transactions_b.json"), and names that
\* miss the prefix or the suffix
NamePool ==
    {FileName(t) : t \in Timestamps}
    \cup {NamePrefix \o NameSuffix, NamePrefix \o <<98>> \o NameSuffix}
    \cup {<<122>> \o FileName(t) : t \in {[y |-> 2024, mo |-> 10, d |-> 1, h |-> 0, mi |-> 0, s |-> 10]}}
    \cup {NamePrefix \o <<57>>, <<110>> \o NameSuffix}

\* lines 42-45
FindLatest ==
    /\ pc = "latest"
    /\ latest' = IF JsonFiles(listing) = {} THEN NoFile ELSE MaxOfFiles(JsonFiles(listing))
    /\ pc' = "latest_done"
    /\ UNCHANGED <<srvTotal, nreq, mainvars, listing, delay, page, total_pages,
                   all_transactions, result, signal, calls, got, fetchvars>>

----------------------------------------------------------------------------
(* Specifications *)

IdleFetch ==
    /\ fpage = 0 /\ fdelay = 0 /\ fmax = 0 /\ attempt = 0
    /\ fstate = "idle" /\ fresult = None /\ ftrace = <<>>

\* main and find_latest_transaction_file take no part
NoMain ==
    /\ nreq = 0
    /\ session_id = <<>> /\ hall_ticket = <<>>
    /\ mainMsg = "none" /\ files = {}
    /\ listing = {} /\ latest = <<>>

Init ==
    /\ srvTotal \in 0..MaxTotal
    /\ delay \in 0..MaxDelay
    /\ pc = "start"
    /\ page = 0
    /\ total_pages = 0
    /\ all_transactions = <<>>
    /\ result = <<>>
    /\ signal = "none"
    /\ calls = <<>>
    /\ got = <<>>
    /\ IdleFetch
    /\ NoMain

Next ==
    \/ CallFirstPage
    \/ FetchEnter
    \/ FetchAttempt
    \/ HandleFirstPage
    \/ LoopStep
    \/ HandlePage

Spec == Init /\ [][Next]_vars

\* a direct call get_card_transactions(page, delay, max_retries), at function entry
InitFetch ==
    /\ srvTotal \in {0, MaxTotal}
    /\ delay = 0
    /\ pc = "direct"
    /\ page = 0
    /\ total_pages = 0
    /\ all_transactions = <<>>
    /\ result = <<>>
    /\ signal = "none"
    /\ calls = <<>>
    /\ got = <<>>
    /\ fpage \in 1..MaxPageArg
    /\ fdelay \in 0..MaxDelay
    /\ fmax \in 1..MaxAttempts
    /\ attempt = 0
    /\ fstate = "entry"
    /\ fresult = None
    /\ ftrace = <<>>
    /\ NoMain

NextFetch ==
    \/ FetchEnter
    \/ FetchAttempt

SpecFetch == InitFetch /\ [][NextFetch]_vars

\* the record counts of the runs of main: none, one page, two pages, three pages
RunTotals == {0, 1, PageSize + 1, 2 * PageSize + 1} \cap (0..MaxTotal)

\* a run of main, from the prompts to its last message
InitMain ==
    /\ srvTotal \in RunTotals
    /\ delay = MaxDelay
    /\ pc = "main"
    /\ page = 0
    /\ total_pages = 0
    /\ all_transactions = <<>>
    /\ result = <<>>
    /\ signal = "none"
    /\ calls = <<>>
    /\ got = <<>>
    /\ IdleFetch
    /\ NoMain

NextMain ==
    \/ MainStart
    \/ CallFirstPage
    \/ FetchEnter
    \/ FetchAttemptCounted
    \/ HandleFirstPage
    \/ LoopStep
    \/ HandlePage
    \/ MainFinish

\* the program is sequential and every request and every sleep returns:
\* a step that can be taken is taken
SpecMain == InitMain /\ [][NextMain]_vars /\ WF_vars(NextMain)

\* one call of find_latest_transaction_file in a directory of at most MaxFiles names
InitLatest ==
    /\ srvTotal = 0
    /\ delay = 0
    /\ pc = "latest"
    /\ page = 0
    /\ total_pages = 0
    /\ all_transactions = <<>>
    /\ result = <<>>
    /\ signal = "none"
    /\ calls = <<>>
    /\ got = <<>>
    /\ IdleFetch
    /\ nreq = 0
    /\ session_id = <<>> /\ hall_ticket = <<>>
    /\ mainMsg = "none" /\ files = {}
    /\ listing \in {d \in SUBSET NamePool : Cardinality(d) <= MaxFiles}
    /\ latest = NoFile

NextLatest == FindLatest

SpecLatest == InitLatest /\ [][NextLatest]_vars

----------------------------------------------------------------------------
(* Helpers of the properties *)

RECURSIVE ConcatRows(_)
\* the rows of a sequence of returned values, concatenated in order
ConcatRows(s) == IF s = <<>> THEN <<>> ELSE GetRows(Head(s)) \o ConcatRows(Tail(s))

RECURSIVE SumRowCounts(_)
SumRowCounts(s) == IF s = <<>> THEN 0 ELSE Len(GetRows(Head(s))) + SumRowCounts(Tail(s))

\* record <<p, i>> comes before record <<q, j>> in the full record set
Before(r1, r2) == r1[1] < r2[1] \/ (r1[1] = r2[1] /\ r1[2] < r2[2])

StrictlyAscending(s) == \A i, j \in DOMAIN s : i < j => Before(s[i], s[j])

OneToN(s) == s = [i \in 1..Len(s) |-> i]

Max(a, b) == IF a >= b THEN a ELSE b

\* ceil(a / b), from its definition: the least q with q * b >= a
CeilDiv(a, b) == CHOOSE q \in 0..a : q * b >= a /\ (q - 1) * b < a

Is2xx(s) == s >= 200 /\ s < 300

Positions(tr, e) == {i \in DOMAIN tr : tr[i].ev = e}

Count(tr, e) == Cardinality(Positions(tr, e))

\* a page returned by get_card_transactions, as opposed to the failure value
IsPage(v) == v.kind = "obj"

\* the run ended because all pages were fetched
Completed == pc = "done" /\ signal = "complete"

----------------------------------------------------------------------------
(* C1: when pages 1..k-1 succeeded and get_card_transactions returns the   *)
(* failure value for page k > 1 (which it does only after max_retries      *)
(* requests), the run ends with the rows of pages 1..k-1 in page order and *)
(* no page beyond k is ever requested.                                     *)
C1_PartialResultOnPageFailure ==
    /\ (pc = "wait" /\ fstate = "returned" /\ fresult = None)
          => Count(ftrace, "req") = DefaultRetries
    /\ \A k \in 2..Len(got) :
          got[k] = None =>
             /\ pc = "done"
             /\ \A i \in 1..(k - 1) : IsPage(got[i])
             /\ result = ConcatRows(SubSeq(got, 1, k - 1))
             /\ calls = [i \in 1..k |-> i]

C1_Witness ==
    /\ pc = "done"
    /\ Len(got) = 3
    /\ got[3] = None
    /\ Len(result) = 2

(* C2, as stated: the returned list is the concatenation, in page order,   *)
(* of the rows of every page get_card_transactions returned.               *)
C2_Original ==
    pc = "done" =>
       /\ result = ConcatRows(got)
       /\ Len(result) = SumRowCounts(got)
       /\ StrictlyAscending(result)

\* the first page came back as a page without `total`
FirstPageLacksTotal == Len(got) >= 1 /\ IsPage(got[1]) /\ ~HasKey(got[1], "total")

(* C2, amended: the returned list is the concatenation, in page order, of  *)
(* the rows of every page get_card_transactions returned, except that it   *)
(* is empty when the first page has no `total`; its length is the sum of   *)
(* those row counts and no record is reordered or duplicated.              *)
C2_ResultIsConcatenation ==
    pc = "done" =>
       /\ result = IF FirstPageLacksTotal THEN <<>> ELSE ConcatRows(got)
       /\ Len(result) = IF FirstPageLacksTotal THEN 0 ELSE SumRowCounts(got)
       /\ StrictlyAscending(result)

C2_Witness ==
    /\ Completed
    /\ Len(got) = 3
    /\ Len(result) = 3

(* C3: in every state of a run the pages get_card_transactions was called  *)
(* with are 1, 2, ..., j, each once, and the accumulator holds the rows of *)
(* pages 1..i for some i <= j, in page order.                              *)
C3_PagesInOrderAccumulatorIsPrefix ==
    /\ OneToN(calls)
    /\ Len(got) <= Len(calls)
    /\ \E i \in 0..Len(got) : all_transactions = ConcatRows(SubSeq(got, 1, i))
    /\ pc = "done" => \E i \in 0..Len(got) : result = ConcatRows(SubSeq(got, 1, i))

C3_Witness ==
    /\ pc = "wait"
    /\ calls = <<1, 2, 3>>
    /\ Len(got) = 2
    /\ Len(all_transactions) = 2
    /\ fstate = "returned"

(* C4: when get_card_transactions returns the failure value for page 1,    *)
(* the run returns an empty list and no page >= 2 is ever requested.       *)
C4_FirstPageFailure ==
    /\ (pc = "first" /\ fstate = "returned" /\ fresult = None)
          => Count(ftrace, "req") = DefaultRetries
    /\ (Len(got) >= 1 /\ got[1] = None)
          => /\ pc = "done"
             /\ result = <<>>
             /\ calls = <<1>>

C4_Witness ==
    /\ pc = "done"
    /\ got = <<None>>
    /\ srvTotal > PageSize

(* C5: when page 1 is returned as a well-formed body without `total`, the  *)
(* run returns an empty list (the page's own rows are dropped) and no page *)
(* >= 2 is ever requested.                                                 *)
C5_FirstPageWithoutTotal ==
    FirstPageLacksTotal =>
       /\ pc = "done"
       /\ result = <<>>
       /\ calls = <<1>>

C5_Witness ==
    /\ pc = "done"
    /\ FirstPageLacksTotal
    /\ Len(GetRows(got[1])) > 0
    /\ srvTotal > PageSize

(* C6, as stated: total_pages is ceil(total / 50) and a run in which no    *)
(* page fetch fails makes exactly total_pages calls of                     *)
(* get_card_transactions.                                                  *)
C6_Original ==
    /\ pc \in {"loop", "wait"} => total_pages = CeilDiv(got[1].total, PageSize)
    /\ Completed =>
          /\ total_pages = CeilDiv(got[1].total, PageSize)
          /\ Len(calls) = total_pages

(* C6, amended: total_pages is ceil(total / 50) and a run in which no page *)
(* fetch fails makes exactly max(1, total_pages) calls of                  *)
(* get_card_transactions: page 1 is fetched even when total is 0.          *)
C6_TotalPagesAndCallCount ==
    /\ pc \in {"loop", "wait"} => total_pages = CeilDiv(got[1].total, PageSize)
    /\ Completed =>
          /\ got[1].total = srvTotal
          /\ total_pages = CeilDiv(got[1].total, PageSize)
          /\ Len(calls) = Max(1, total_pages)

C6_Witness ==
    /\ Completed
    /\ srvTotal = 2 * PageSize + 1
    /\ total_pages = 3
    /\ Len(calls) = 3

----------------------------------------------------------------------------
(* Properties of one get_card_transactions call (SpecFetch) *)

Requests == Positions(ftrace, "req")
Pauses == Positions(ftrace, "pause")
Answers == Positions(ftrace, "resp")

\* the call returned a page at attempt a
ReturnedPageAt(a) == \E i \in DOMAIN ftrace : ftrace[i] = Ret(a, "page")

\* the pauses between the request at position r and the next request, if any
PausesAfter(r) == {p \in Pauses : p > r /\ \A r2 \in Requests : r2 > r => p < r2}

\* the pauses before the first request
PausesBeforeFirst == {p \in Pauses : \A r \in Requests : p < r}

(* C7: every attempt issues exactly one request, a call issues at most     *)
(* max_retries requests, and no request follows the attempt that returned  *)
(* a page.                                                                 *)
C7_OneRequestPerAttempt ==
    /\ Cardinality(Requests) <= fmax
    /\ fstate = "loop" => Cardinality(Requests) = attempt
    /\ fstate = "returned" => Cardinality(Requests) = attempt + 1
    /\ \A r \in Requests : ftrace[r].n = Cardinality({q \in Requests : q < r})
    /\ \A i \in Positions(ftrace, "ret") : \A r \in Requests : r < i
    /\ fstate = "returned" => ~ENABLED FetchAttempt

C7_Witness ==
    /\ fstate = "returned"
    /\ IsPage(fresult)
    /\ fmax = 3
    /\ Cardinality(Requests) = 2

(* C8: after a failed attempt i that is not the last there is exactly one  *)
(* pause, of delay * (i + 2), before the next request, whatever the kind   *)
(* of failure; no pause follows the last attempt or a successful one; and  *)
(* before the first request there is no pause for page 1 and exactly one   *)
(* pause of delay for a page > 1.                                          *)
C8_BackoffAndPacing ==
    /\ fstate \in {"loop", "returned"} =>
          IF fpage = 1
          THEN PausesBeforeFirst = {}
          ELSE /\ Cardinality(PausesBeforeFirst) = 1
               /\ \A p \in PausesBeforeFirst : ftrace[p].n = fdelay
    /\ \A r \in Requests :
          LET a == ftrace[r].n
          IN  IF a < fmax - 1 /\ ~ReturnedPageAt(a)
              THEN /\ Cardinality(PausesAfter(r)) = 1
                   /\ \A p \in PausesAfter(r) : ftrace[p].n = fdelay * (a + 2)
              ELSE PausesAfter(r) = {}

C8_Witness ==
    /\ fstate = "returned"
    /\ fpage = 2
    /\ fdelay = 1
    /\ fresult = None
    /\ \E i, j, k \in DOMAIN ftrace :
          /\ ftrace[i] = Log(0, "exc_noresp")
          /\ ftrace[j] = Log(1, "status")
          /\ ftrace[k] = Log(2, "json")
    /\ Cardinality(Pauses) = 3

(* C9: a call whose every attempt received a non-2xx status returns the    *)
(* failure value, never a page.                                            *)
C9_Non2xxIsFailure ==
    (/\ fstate = "returned"
     /\ Cardinality(Answers) = fmax
     /\ \A i \in Answers : ftrace[i].kind # "exc" /\ ~Is2xx(ftrace[i].n))
       => fresult = None

\* the call returned a page at the attempt whose response is at position i,
\* with no pause and no request after that response
SuccessAt(i) ==
    /\ fstate = "returned"
    /\ IsPage(fresult)
    /\ ftrace[Len(ftrace)] = Ret(ftrace[i - 1].n, "page")
    /\ \A j \in DOMAIN ftrace : j > i => ftrace[j].ev \notin {"req", "pause", "resp"}

----------------------------------------------------------------------------
(* Properties of a run of main (SpecMain) *)

\* the value returned for page k is one the loop goes on after
PageAccepted(k) ==
    IF k = 1 THEN Truthy(got[1]) /\ HasKey(got[1], "total")
    ELSE Truthy(got[k]) /\ HasKey(got[k], "rows")

\* get_all_transactions has returned: after the last page, or at the first
\* page that failed or lacked its field
EndedWhereItShould ==
    /\ Len(got) = Len(calls)
    /\ \A k \in 1..(Len(got) - 1) : PageAccepted(k)
    /\ IF signal = "complete"
       THEN /\ Len(got) = Max(1, total_pages)
            /\ PageAccepted(Len(got))
       ELSE ~PageAccepted(Len(got))

(* C16: every run of get_all_transactions terminates (every request and    *)
(* every sleep returning): once started it returns, after at most          *)
(* 3 * max(1, total_pages) requests, having ended after page total_pages   *)
(* or at the first page whose fetch failed or lacked its field.            *)
C16_RunTerminates ==
    /\ (pc = "start") ~> (pc = "done")
    /\ [](nreq <= DefaultRetries * Max(1, total_pages))
    /\ [](pc = "done" => EndedWhereItShould)

C16_Witness ==
    /\ pc = "done"
    /\ total_pages = 3
    /\ nreq = 3 * DefaultRetries
    /\ signal = "page_failed"

(* C11: when page 1 succeeds and reports total = 0 (and no rows),          *)
(* total_pages is 0, page 1 is the only page requested, the result is      *)
(* empty, and the run ends as a successful completion, not with the        *)
(* message of the failed runs.                                             *)
C11_ZeroTotalIsSuccess ==
    (/\ pc \in {"done", "exit"}
     /\ Len(got) >= 1
     /\ PageAccepted(1)
     /\ got[1].total = 0
     /\ GetRows(got[1]) = <<>>)
       => /\ total_pages = 0
          /\ calls = <<1>>
          /\ result = <<>>
          /\ signal = "complete"
          /\ pc = "exit" => mainMsg # "none_retrieved"

(* C17: with an empty credential (after trimming) main issues no request   *)
(* and writes no file; otherwise it writes one file                        *)
(* card_transactions_<YYYYMMDD_HHMMSS>.json exactly when the result is not *)
(* empty.                                                                  *)
Trimmed(s) == s = <<>> \/ (~IsSpace(s[1]) /\ ~IsSpace(s[Len(s)]))

IsDigit(c) == c >= 48 /\ c <= 57

\* card_transactions_ + 8 digits + _ + 6 digits + .json
HasStampedForm(f) ==
    /\ Len(f) = Len(NamePrefix) + 15 + Len(NameSuffix)
    /\ SubSeq(f, 1, Len(NamePrefix)) = NamePrefix
    /\ SubSeq(f, Len(f) - Len(NameSuffix) + 1, Len(f)) = NameSuffix
    /\ \A i \in 1..15 :
          IF i = 9 THEN f[Len(NamePrefix) + i] = 95 ELSE IsDigit(f[Len(NamePrefix) + i])

C17_FileWrittenIffResult ==
    /\ Trimmed(session_id) /\ Trimmed(hall_ticket)
    /\ pc # "exit" => files = {}
    /\ (pc # "main" /\ (session_id = <<>> \/ hall_ticket = <<>>))
          => /\ pc = "exit"
             /\ nreq = 0 /\ calls = <<>> /\ fstate = "idle"
             /\ files = {}
    /\ pc = "exit" =>
          /\ files # {} <=> result # <<>>
          /\ Cardinality(files) <= 1
          /\ \A f \in files : HasStampedForm(f)
    /\ (pc = "exit" /\ signal \in {"initial_failed", "unexpected_format"}) => files = {}
    /\ (pc = "exit" /\ signal = "complete" /\ result = <<>>) => files = {}

C17_Witness ==
    /\ pc = "exit"
    /\ Len(result) = 3
    /\ files = {FileName([y |-> 2024, mo |-> 9, d |-> 1, h |-> 0, mi |-> 0, s |-> 10])}
    /\ mainMsg = "saved"

----------------------------------------------------------------------------
(* Further properties of a run of get_all_transactions (Spec) *)

(* C12: a schema error is never retried: when page 1 is a well-formed body *)
(* without `total`, or page k > 1 one without `rows`, that page is not     *)
(* requested again, no later page is requested, and the run ends at once   *)
(* (empty for page 1, the rows of pages 1..k-1 for page k).                *)
C12_SchemaErrorNotRetried ==
    /\ (pc \in {"first", "wait"} /\ fstate = "returned" /\ IsPage(fresult))
          => /\ ftrace[Len(ftrace)].ev = "ret"
             /\ ~ENABLED FetchAttempt
    /\ \A k \in 1..Len(got) :
          (IsPage(got[k]) /\ ~PageAccepted(k)) =>
             /\ pc = "done"
             /\ calls = [i \in 1..k |-> i]
             /\ result = IF k = 1 THEN <<>> ELSE ConcatRows(SubSeq(got, 1, k - 1))

C12_Witness ==
    /\ pc = "done"
    /\ Len(got) = 2
    /\ got[2] = PageObj({"total"}, srvTotal, <<>>)
    /\ total_pages = 3
    /\ Len(result) = 1

Diagnostics == {"status", "headers", "body"}

\* the attempt whose response is at position i printed a record with the response
\* diagnostics before it slept, asked again or returned
LoggedWithDiagnostics(i) ==
    \E j \in Positions(ftrace, "log") :
       /\ j > i
       /\ \A m \in (i + 1)..(j - 1) : ftrace[m].ev = "log"
       /\ ftrace[i].kind # "exc" => Diagnostics \subseteq LogFields(ftrace[j].kind)

(* C13: every error condition (a failed attempt of any kind, a missing     *)
(* `total` on page 1, a missing `rows` on a later page) is logged with the *)
(* response diagnostics (status, headers, truncated body) before the       *)
(* pause, the next attempt or the return that follows it.                  *)
C13_ErrorsLoggedWithDiagnostics ==
    /\ \A i \in Answers :
          ~ReturnedPageAt(ftrace[i - 1].n) => LoggedWithDiagnostics(i)
    /\ (pc = "done" /\ IsPage(got[Len(got)]) /\ ~PageAccepted(Len(got)))
          => Diagnostics \subseteq DriverLogFields(signal)

(* C14: the delay given to get_all_transactions is the delay of every      *)
(* get_card_transactions call of the run, page 1 included, so every pause  *)
(* of the run is a multiple of it.                                         *)
C14_OperatorDelayEverywhere ==
    pc \in {"first", "wait"} =>
       /\ fdelay = delay
       /\ \A p \in Pauses : \E m \in 0..(DefaultRetries + 1) : ftrace[p].n = m * delay

(* C15: "initial fetch failed" is signalled exactly when the page-1 call   *)
(* returned the failure value, "unexpected response format" exactly when   *)
(* page 1 is a well-formed body without `total`, the empty object          *)
(* included.                                                               *)
C15_SignalsOfFirstPage ==
    pc = "done" =>
       /\ signal = "initial_failed" <=> got[1] = None
       /\ signal = "unexpected_format" <=> (IsPage(got[1]) /\ ~HasKey(got[1], "total"))

----------------------------------------------------------------------------
(* Properties of find_latest_transaction_file (SpecLatest) *)

\* a comes before b in lexicographic order
LexLess(a, b) ==
    \E i \in 1..(Len(a) + 1) :
       /\ \A j \in 1..(i - 1) : j <= Len(b) /\ a[j] = b[j]
       /\ IF i > Len(a) THEN Len(b) >= i
          ELSE i <= Len(b) /\ a[i] < b[i]

\* the names that start with card_transactions_ and end with .json
Matching == {f \in listing : StartsWith(f, NamePrefix) /\ EndsWith(f, NameSuffix)}

\* timestamp t is not later than timestamp u
NotLater(t, u) ==
    LET a == <<t.y, t.mo, t.d, t.h, t.mi, t.s>>
        b == <<u.y, u.mo, u.d, u.h, u.mi, u.s>>
    IN  a = b \/ \E i \in 1..6 : (\A j \in 1..(i - 1) : a[j] = b[j]) /\ a[i] < b[i]

(* C18: find_latest_transaction_file returns None when no name starts with *)
(* card_transactions_ and ends with .json, otherwise the matching name     *)
(* that is lexicographically greatest; when every matching name is         *)
(* card_transactions_<YYYYMMDD_HHMMSS>.json, that is the name with the     *)
(* latest timestamp.                                                       *)
C18_LatestFile ==
    pc = "latest_done" =>
       /\ Matching = {} => latest = NoFile
       /\ Matching # {} =>
             /\ latest \in Matching
             /\ \A g \in Matching : g = latest \/ LexLess(g, latest)
       /\ (Matching # {} /\ Matching \subseteq {FileName(t) : t \in Timestamps}) =>
             \E t \in Timestamps :
                /\ latest = FileName(t)
                /\ \A u \in Timestamps : FileName(u) \in listing => NotLater(u, t)

C18_Witness ==
    /\ pc = "latest_done"
    /\ Cardinality(listing) = 3
    /\ Cardinality(Matching) = 2
    /\ latest = FileName([y |-> 2024, mo |-> 10, d |-> 1, h |-> 0, mi |-> 0, s |-> 9])
    /\ FileName([y |-> 2024, mo |-> 9, d |-> 1, h |-> 0, mi |-> 0, s |-> 10]) \in listing

====
